---- MODULE Spec2Model ----
(***************************************************************************)
(* A model of the build orchestrator of odedshr/foundations               *)
(* (src/builder/build.js) together with the css, js and static-file       *)
(* handlers it drives.  Paths and file names are sequences of one-         *)
(* character strings, so that the regular expressions and the substring    *)
(* arithmetic of the source are computed and not assumed.                  *)
(***************************************************************************)
EXTENDS Integers, Sequences, FiniteSets, TLC

(***************************************************************************)
(* Bounds of the model.                                                    *)
(***************************************************************************)
\* raw change events delivered to the watchers of one session
MaxEvents == 2
\* references held by one file of the graphs explored
MaxRefs == 2

(***************************************************************************)
(* Strings.                                                                *)
(***************************************************************************)
\* s.endsWith(suf)
EndsWith(s, suf) ==
  /\ Len(s) >= Len(suf)
  /\ SubSeq(s, Len(s) - Len(suf) + 1, Len(s)) = suf

\* s.lastIndexOf('/'), 1-based; 0 when s holds no '/'
LastSlash(s) ==
  LET at == {i \in 1..Len(s) : s[i] = "/"}
  IN  IF at = {} THEN 0 ELSE CHOOSE i \in at : \A j \in at : j <= i

\* the part of a path after its last '/'
BaseName(file) == SubSeq(file, LastSlash(file) + 1, Len(file))

\* s.replace('//', '/'): the FIRST occurrence only
ReplaceFirstDoubleSlash(s) ==
  LET at == {i \in 1..(Len(s) - 1) : s[i] = "/" /\ s[i + 1] = "/"}
  IN  IF at = {} THEN s
      ELSE LET i == CHOOSE k \in at : \A j \in at : k <= j
           IN  SubSeq(s, 1, i) \o SubSeq(s, i + 2, Len(s))

\* s.split('/')
RECURSIVE Split(_)
Split(s) ==
  LET at == {i \in 1..Len(s) : s[i] = "/"}
  IN  IF at = {} THEN <<s>>
      ELSE LET i == CHOOSE k \in at : \A j \in at : k <= j
           IN  <<SubSeq(s, 1, i - 1)>> \o Split(SubSeq(s, i + 1, Len(s)))

(***************************************************************************)
(* The session: the process working directory, the file system, the map.   *)
(***************************************************************************)
VARIABLES
  cwd,          \* process.cwd()
  fs,           \* the file system: [files, dirs], sets of resolved paths
  appMap,       \* the argument of once / live
  resolved,     \* its entries as getMappedEntries resolves them
  handlers,     \* who holds the handler given to build.onError
  onErrorState, \* the build.onError call: "idle", "returned" or "threw"
  onceCall,     \* the once call: how it was made and where it stands
  onceEntries,  \* once: one record per entry of the map
  liveCall,     \* the live call: how it was made and where it stands
  mapJobs,      \* live: the mapFile promise of each root file
  watchers,     \* the watchers getWatchers has created, by identity
  rebuilds,     \* watch-triggered rebuilds in flight, per output
  watchLog,     \* what became of the watch-triggered rebuilds
  events,       \* raw events delivered so far
  compiled,     \* per output: the sources its artifact was compiled from,
                \* and the sources of its rebuilds in flight
  call          \* a single call of one function: its arguments and result

\* what a session is given and never changes
session == <<cwd, appMap, resolved>>

vars == <<session, fs, handlers, onErrorState, onceCall, onceEntries,
          liveCall, mapJobs, watchers, rebuilds, watchLog, events, compiled,
          call>>

Slash == <<"/">>

\* a path is absolute when it starts at the root or at a drive ("c:...")
IsAbsolute(p) ==
  \/ Len(p) >= 1 /\ p[1] = "/"
  \/ Len(p) >= 2 /\ p[2] = ":"

\* what the operating system makes of a path: doubled separators collapse,
\* a trailing separator is dropped (the root keeps its own)
RECURSIVE Norm(_)
Norm(p) ==
  IF Len(p) >= 2 /\ p[Len(p)] = "/" THEN Norm(SubSeq(p, 1, Len(p) - 1))
  ELSE IF ReplaceFirstDoubleSlash(p) # p THEN Norm(ReplaceFirstDoubleSlash(p))
  ELSE p

\* a relative path is resolved against the working directory
Resolve(p) == Norm(IF IsAbsolute(p) THEN p ELSE cwd \o Slash \o p)

Parent(p) ==
  IF LastSlash(p) = 0 THEN <<>>
  ELSE IF LastSlash(p) = 1 THEN Slash
  ELSE SubSeq(p, 1, LastSlash(p) - 1)

IsDirectory(f, p) == p # <<>> /\ Resolve(p) \in f.dirs

IsFile(f, p) ==
  /\ p # <<>>
  /\ Resolve(p) \in f.files
  /\ ~EndsWith(p, Slash)

\* fs.existsSync
ExistsSync(f, p) == IsDirectory(f, p) \/ IsFile(f, p)

\* fs.mkdirSync succeeds when the path is new and its parent is a directory
CanMkdir(f, p) ==
  /\ p # <<>>
  /\ ~ExistsSync(f, p)
  /\ Parent(Resolve(p)) \in f.dirs

Mkdir(f, p) == [f EXCEPT !.dirs = @ \cup {Resolve(p)}]

(***************************************************************************)
(* build.js: getAbsolutePath.                                              *)
(***************************************************************************)
getAbsolutePath(path, file) ==
  LET p == IF Len(path) > 0 /\ ~EndsWith(path, Slash) THEN path \o Slash
           ELSE path
  IN  cwd \o Slash \o ReplaceFirstDoubleSlash(p \o file)

(***************************************************************************)
(* build.js: the registry of file types and getFileType.                   *)
(***************************************************************************)
\* types, in the order of the Map: <<id, the suffix its regExp asks for>>
types ==
  << [id |-> "js",    suffix |-> <<".", "j", "s">>],
     [id |-> "css",   suffix |-> <<".", "c", "s", "s">>],
     [id |-> "html",  suffix |-> <<".", "h", "t", "m", "l">>],
     [id |-> "files", suffix |-> <<"/">>] >>

\* a lookup with no fallback: the result of find alone
getFileTypeNoFallback(fileName) ==
  LET hits == {i \in 1..Len(types) : EndsWith(fileName, types[i].suffix)}
  IN  IF hits = {} THEN "undefined"
      ELSE types[CHOOSE i \in hits : \A j \in hits : i <= j].id

getFileType(fileName) ==
  LET hits == {i \in 1..Len(types) : EndsWith(fileName, types[i].suffix)}
  IN  IF hits = {} THEN "files"
      ELSE types[CHOOSE i \in hits : \A j \in hits : i <= j].id

(***************************************************************************)
(* build.js: getMappedEntries.  An entry of the map is                     *)
(*   [kind |-> "string" | "list" | "object", paths |-> its source paths,    *)
(*    external |-> the external field of an object entry]                  *)
(* (an object entry's paths are those of its source field); the result is  *)
(* an array of absolute paths, or a copy of the object whose source is     *)
(* that array and whose other fields are as they were given.               *)
(***************************************************************************)
getMappedEntries(source, entry) ==
  [kind     |-> IF entry.kind = "object" THEN "object" ELSE "array",
   paths    |-> [i \in 1..Len(entry.paths) |->
                   getAbsolutePath(source, entry.paths[i])],
   external |-> entry.external]

(***************************************************************************)
(* The static-file handler (Static, the `files` of build.js).  A call that *)
(* touches the file system yields [threw, fs]: whether it threw, and the   *)
(* file system it left.                                                    *)
(***************************************************************************)
Done(f) == [threw |-> FALSE, fs |-> f]
Threw(f) == [threw |-> TRUE, fs |-> f]

\* Static.getFileTargt
getFileTargt(file, target) ==
  IF EndsWith(target, Slash)
  THEN target \o SubSeq(file, LastSlash(file) + 1, Len(file))
  ELSE target

\* the reduce of Static.validatePathExists over the segments of the path
RECURSIVE validateSegments(_, _, _)
validateSegments(f, segs, acc) ==
  IF segs = <<>> THEN Done(f)
  ELSE LET a == acc \o Head(segs)
       IN  IF ExistsSync(f, a) THEN validateSegments(f, Tail(segs), a \o Slash)
           ELSE IF CanMkdir(f, a)
                THEN validateSegments(Mkdir(f, a), Tail(segs), a \o Slash)
                ELSE Threw(f)

\* Static.validatePathExists
validatePathExists(f, path) == validateSegments(f, Split(path), <<>>)

AnyFile == <<"/", "*", ".", "*">>

\* glob.sync: a plain pattern matches the path itself when it exists; dir/*.*
\* matches the children of dir whose name holds a dot
Glob(f, pattern) ==
  IF EndsWith(pattern, AnyFile)
  THEN LET dir == SubSeq(pattern, 1, Len(pattern) - Len(AnyFile))
       IN  {dir \o Slash \o SubSeq(c, LastSlash(c) + 1, Len(c)) :
              c \in {x \in f.files \cup f.dirs :
                       /\ Parent(x) = Resolve(dir)
                       /\ x # Resolve(dir)
                       /\ \E i \in (LastSlash(x) + 1)..Len(x) : x[i] = "."}}
  ELSE IF ExistsSync(f, pattern) THEN {pattern} ELSE {}

\* fs.copyFileSync succeeds on a regular file whose destination directory
\* exists and whose destination is not a directory
CanCopyFile(f, file, fileTarget) ==
  /\ IsFile(f, file)
  /\ Parent(Resolve(fileTarget)) \in f.dirs
  /\ ~IsDirectory(f, fileTarget)

CopyFile(f, file, fileTarget) ==
  [f EXCEPT !.files = @ \cup {Resolve(fileTarget)},
            !.empty = @ \ {Resolve(fileTarget)}]

\* Static.copy.  source is [kind, paths]: "string" (one path), "array", or
\* "object" (an entry object, which glob.sync refuses with a TypeError).
\* fault: the platform refuses copyFileSync.
RECURSIVE copy(_, _, _, _)
RECURSIVE copySources(_, _, _, _)
RECURSIVE copyFiles(_, _, _, _)
copyFiles(f, found, target, fault) ==
  IF found = {} THEN Done(f)
  ELSE LET file       == CHOOSE x \in found : TRUE
           fileTarget == getFileTargt(file, target)
           f1         == CopyFile(f, file, fileTarget)
       IN  IF fault \/ ~CanCopyFile(f, file, fileTarget) THEN Threw(f)
           ELSE IF ~ExistsSync(f1, target) THEN Threw(f1)
           ELSE IF ~IsDirectory(f1, target)
                THEN copyFiles(f1, found \ {file}, target, fault)
                ELSE LET r == copy(f1,
                                   [kind |-> "string",
                                    paths |-> <<file \o AnyFile>>],
                                   fileTarget \o Slash, fault)
                     IN  IF r.threw THEN r
                         ELSE copyFiles(r.fs, found \ {file}, target, fault)

copySources(f, sources, target, fault) ==
  IF sources = <<>> THEN Done(f)
  ELSE LET r == copyFiles(f, Glob(f, Head(sources)), target, fault)
       IN  IF r.threw THEN r
           ELSE copySources(r.fs, Tail(sources), target, fault)

copy(f, source, target, fault) ==
  LET v == validatePathExists(f, SubSeq(target, 1, LastSlash(target) - 1))
  IN  IF v.threw THEN v
      ELSE IF source.kind = "object" THEN Threw(v.fs)
      ELSE copySources(v.fs, source.paths, target, fault)

(***************************************************************************)
(* build.js: removeFileIfRedundant.  entries.find exists on arrays only:   *)
(* on a string or an entry object the call is a TypeError.                 *)
(***************************************************************************)
removeFileIfRedundant(f, file, entries, destPath) ==
  IF entries.kind # "array" THEN Threw(f)
  ELSE LET found ==
             \E i \in 1..Len(entries.paths) :
               LET entry == entries.paths[i]
               IN  IF entry = file THEN ExistsSync(f, entry)
                   ELSE IF EndsWith(entry, Slash)
                        THEN ExistsSync(f, entry \o file)
                        ELSE FALSE
       IN  IF ~found /\ ExistsSync(f, destPath \o file)
           THEN Done([f EXCEPT !.files = @ \ {Resolve(destPath \o file)},
                               !.empty = @ \ {Resolve(destPath \o file)}])
           ELSE Done(f)

(***************************************************************************)
(* build.js: writeToFile.  For the pass-through type everything happens    *)
(* in the call itself; for a compiling type the call returns the promise   *)
(* of the handler's compile, and the artifact is written when it resolves. *)
(***************************************************************************)
\* the value of a parameter the caller left out
Undefined == <<"u", "n", "d", "e", "f", "i", "n", "e", "d">>

\* writeToFile, fileTypeDef.id === 'files'
writeToFileFiles(f, path, name, sourceFile, triggeredByFile, fault) ==
  LET r == IF triggeredByFile # Undefined
           THEN removeFileIfRedundant(f, triggeredByFile, sourceFile,
                                      path \o Slash \o name)
           ELSE Done(f)
  IN  IF r.threw THEN r
      ELSE copy(r.fs, sourceFile, getAbsolutePath(path, name), fault)

\* files.addPath: every missing directory of the path is created
RECURSIVE addPath(_, _)
addPath(f, path) ==
  IF path = <<>> \/ ExistsSync(f, path) THEN f
  ELSE Mkdir(addPath(f, Parent(Resolve(path))), path)

\* writeToFile, the callback of compile(...).then: addPath, writeFileSync
writeArtifact(f, targetPath, targetFileName, content) ==
  LET absoluteTarget == getAbsolutePath(targetPath, targetFileName)
      g == addPath(f, SubSeq(absoluteTarget, 1, LastSlash(absoluteTarget) - 1))
  IN  [g EXCEPT !.files = @ \cup {Resolve(absoluteTarget)},
                !.empty = IF content = "empty"
                          THEN @ \cup {Resolve(absoluteTarget)}
                          ELSE @ \ {Resolve(absoluteTarget)}]

(***************************************************************************)
(* css.js: CSS.compile.  loadFails, sassFails, postFails: whether          *)
(* loadFile, sass, and prefix or minify reject.  The promise never         *)
(* rejects: every failure goes to css.handleError and the content of the   *)
(* result is empty.  calls: how often css.handleError was invoked.         *)
(***************************************************************************)
cssCompile(loadFails, sassFails, postFails) ==
  IF loadFails THEN [calls |-> 1, content |-> "empty"]
  ELSE IF sassFails /\ postFails THEN [calls |-> 2, content |-> "empty"]
  ELSE IF sassFails \/ postFails THEN [calls |-> 1, content |-> "empty"]
  ELSE [calls |-> 0, content |-> "compiled"]

(***************************************************************************)
(* Reference discovery (mapNested, mapper.map).  g gives, for every file,  *)
(* the referenced paths its text holds, in match order.  The walk is       *)
(* depth first; it keeps a stack of the files it is in, each with the      *)
(* index of its next reference.  Every step takes one unit of fuel: a      *)
(* walk that runs out of fuel has not ended (done = FALSE).                *)
(***************************************************************************)
Range(s) == {s[i] : i \in 1..Len(s)}

\* a referenced path is resolved against the directory of the file
resolveRef(file, ref) == Parent(file) \o Slash \o ref

isExternal(ref, external) == ref \in Range(external)

\* a walk that forgets the files it has visited
visitedNever(p, result) == FALSE

\* the visited set of one walk: the root and every file added so far
visited(p, result) == p \in Range(result)

RECURSIVE walk(_, _, _, _, _)
walk(g, external, stack, result, fuel) ==
  IF stack = <<>> THEN [done |-> TRUE, files |-> result]
  ELSE IF fuel = 0 THEN [done |-> FALSE, files |-> result]
  ELSE LET top  == Head(stack)
           rest == <<[top EXCEPT !.next = @ + 1]>> \o Tail(stack)
       IN  IF top.next > Len(g[top.file])
           THEN walk(g, external, Tail(stack), result, fuel - 1)
           ELSE LET ref == g[top.file][top.next]
                    p   == resolveRef(top.file, ref)
                IN  IF \/ isExternal(ref, external)
                       \/ visited(p, result)
                       \/ p \notin DOMAIN g
                    THEN walk(g, external, rest, result, fuel - 1)
                    ELSE walk(g, external,
                              <<[file |-> p, next |-> 1]>> \o rest,
                              Append(result, p), fuel - 1)

RECURSIVE SumLen(_, _)
SumLen(g, S) ==
  IF S = {} THEN 0
  ELSE LET f == CHOOSE x \in S : TRUE IN Len(g[f]) + SumLen(g, S \ {f})

\* every file is entered and left once, every reference is read once
Fuel(g) == Cardinality(DOMAIN g) + SumLen(g, DOMAIN g)

\* discover(rootFile, pattern, external): the root first
discover(g, rootFile, external) ==
  walk(g, external, <<[file |-> rootFile, next |-> 1]>>, <<rootFile>>,
       Fuel(g))

\* js.mapFile: mapNested(fileName, importPattern, external)
jsMapFile(g, fileName, external) == discover(g, fileName, external).files

\* CSS.mapFile takes the file name alone: mapper.map(fileName, importPattern)
cssMapFile(g, fileName) == discover(g, fileName, <<>>).files

(***************************************************************************)
(* The maps and the platforms of the sessions explored.                    *)
(***************************************************************************)
JsList ==
  [name |-> <<"a", ".", "j", "s">>,
   spec |-> [kind |-> "list", paths |-> << <<"a">>, <<"b">> >>,
             external |-> <<>>]]
CssString ==
  [name |-> <<"c", ".", "c", "s", "s">>,
   spec |-> [kind |-> "string", paths |-> << <<"c">> >>,
             external |-> <<>>]]
FilesString ==
  [name |-> <<"o", "/">>,
   spec |-> [kind |-> "string", paths |-> << <<"f">> >>,
             external |-> <<>>]]
FilesObject ==
  [name |-> <<"p", "/">>,
   spec |-> [kind |-> "object", paths |-> << <<"g">> >>,
             external |-> <<>>]]
\* 'j.js': { source: ['h', 'm'], external: ['x'] }
JsObject ==
  [name |-> <<"j", ".", "j", "s">>,
   spec |-> [kind |-> "object", paths |-> << <<"h">>, <<"m">> >>,
             external |-> << <<"x">> >>]]
\* 'd.css': { source: 'k', external: ['e'] }
CssObject ==
  [name |-> <<"d", ".", "c", "s", "s">>,
   spec |-> [kind |-> "object", paths |-> << <<"k">> >>,
             external |-> << <<"e">> >>]]

MapOf(entries) ==
  [kind |-> "object", hasEntries |-> TRUE, source |-> <<"s">>,
   target |-> <<"t">>, entries |-> entries]

AppMaps ==
  { MapOf(<<JsList, FilesString>>),
    MapOf(<<FilesString, CssString>>),
    MapOf(<<CssString, FilesObject>>),
    MapOf(<<CssString, JsList>>),
    MapOf(<<JsObject>>),
    MapOf(<<CssObject>>),
    \* a map with no entries key
    [MapOf(<<>>) EXCEPT !.hasEntries = FALSE],
    \* the name of a map file
    [MapOf(<<>>) EXCEPT !.kind = "file"] }

\* process.cwd() on a POSIX and on a Windows platform
PosixCwd == <<"/", "w">>
WindowsCwd == <<"c", ":", "\\", "w">>
Cwds == {PosixCwd, WindowsCwd}

SourceNames ==
  {<<"a">>, <<"b">>, <<"c">>, <<"f">>, <<"g">>,
   <<"h">>, <<"m">>, <<"x">>, <<"k">>, <<"e">>}

\* what the source files hold: h imports x and m, and k imports e
Imports(n) ==
  IF n = <<"h">> THEN << <<"x">>, <<"m">> >>
  ELSE IF n = <<"k">> THEN << <<"e">> >>
  ELSE <<>>

InitFs(c) ==
  [files |-> {Norm(c \o Slash \o <<"s">> \o Slash \o n) : n \in SourceNames},
   dirs  |-> {c, Norm(c \o Slash \o <<"s">>)} \cup
             (IF c[1] = "/" THEN {Slash} ELSE {}),
   empty |-> {}]

Entries == IF appMap.hasEntries THEN appMap.entries ELSE <<>>
EntryIds == 1..Len(Entries)
TypeOf(i) == getFileType(Entries[i].name)
Resolved(i) == resolved[i]

NewEntry ==
  [state |-> "unstarted", failed |-> FALSE, handled |-> 0, backend |-> 0,
   to |-> {}]

NoWatchLog == [failures |-> 0, toLive |-> 0, unhandled |-> 0, uncaught |-> 0]

\* no artifact compiled yet, no rebuild in flight
NotCompiled == [from |-> <<>>, queue |-> <<>>]

\* no function has been called
NoCall == [op |-> "none", in |-> <<>>, out |-> <<>>]

Init ==
  /\ cwd \in Cwds
  /\ fs = InitFs(cwd)
  /\ appMap \in AppMaps
  /\ resolved = [i \in EntryIds |->
                   getMappedEntries(appMap.source, Entries[i].spec)]
  /\ handlers = [build |-> "default", css |-> "default", html |-> "default",
                 js |-> "none"]
  /\ onErrorState = "idle"
  /\ onceCall = [state |-> "idle", via |-> "none", handler |-> "none",
                 cause |-> "none", reported |-> 0]
  /\ onceEntries = [i \in EntryIds |-> NewEntry]
  /\ liveCall = [state |-> "idle", via |-> "none", handler |-> "none",
                 cause |-> "none", reported |-> 0]
  /\ mapJobs = <<>>
  /\ watchers = <<>>
  /\ rebuilds = [i \in EntryIds |-> 0]
  /\ watchLog = NoWatchLog
  /\ events = 0
  /\ compiled = [i \in EntryIds |-> NotCompiled]
  /\ call = NoCall

(***************************************************************************)
(* build.js: Build.onError.  The js handler exports no onError, so the     *)
(* last statement of the method is a TypeError.  A session sets its        *)
(* handler before it builds.                                               *)
(***************************************************************************)
OnError ==
  /\ onErrorState = "idle"
  /\ onceCall.state = "idle"
  /\ liveCall.state = "idle"
  /\ handlers' = [handlers EXCEPT !.build = "user", !.css = "user",
                                  !.html = "user"]
  /\ onErrorState' = IF handlers.js = "none" THEN "threw" ELSE "returned"
  /\ UNCHANGED <<session, call, compiled, fs, onceCall, onceEntries, liveCall, mapJobs,
                 watchers, rebuilds, watchLog, events>>

(***************************************************************************)
(* build.js: once.                                                         *)
(***************************************************************************)
\* the handler a call receives: once and live take it as their second
\* argument; Build.once and Build.live pass none, so it is the default
HandlerOf(via) == IF via = "direct" THEN "user" ELSE "default"

\* the map callback of once, run over the entries from i on: the
\* synchronous part of each writeToFile.  A throw ends the loop.
RECURSIVE onceLoop(_, _, _, _)
onceLoop(f, i, acc, fault) ==
  IF i > Len(Entries) THEN [threw |-> FALSE, fs |-> f, entries |-> acc]
  ELSE IF TypeOf(i) = "files"
  THEN LET r == writeToFileFiles(f, appMap.target, Entries[i].name,
                                 Resolved(i), Undefined, fault)
       IN  IF r.threw
           THEN [threw |-> TRUE, fs |-> r.fs,
                 entries |-> [acc EXCEPT ![i].state = "threw",
                                         ![i].failed = TRUE]]
           ELSE onceLoop(r.fs, i + 1, [acc EXCEPT ![i].state = "copied"],
                         fault)
  ELSE onceLoop(f, i + 1, [acc EXCEPT ![i].state = "compiling"], fault)

\* once(appMap, handleError), called directly or through the facade
OnceCall(via, fault) ==
  /\ onceCall.state = "idle"
  /\ liveCall.state = "idle"
  /\ IF appMap.kind = "file" \/ ~appMap.hasEntries
     THEN \* readMapFile reads the undeclared fileName; the BadInput error
          \* is built from the undeclared mapFile: a ReferenceError either
          \* way, before handleError is entered
          /\ onceCall' = [state |-> "threw", via |-> via,
                          handler |-> HandlerOf(via), cause |-> "config",
                          reported |-> 0]
          /\ UNCHANGED <<fs, onceEntries>>
     ELSE LET r == onceLoop(fs, 1, onceEntries, fault)
          IN  /\ onceCall' = [state |-> IF r.threw THEN "threw" ELSE "pending",
                              via |-> via, handler |-> HandlerOf(via),
                              cause |-> IF r.threw THEN "entry" ELSE "none",
                              reported |-> 0]
              /\ fs' = r.fs
              /\ onceEntries' = r.entries
  /\ UNCHANGED <<session, call, compiled, handlers, onErrorState, liveCall, mapJobs,
                 watchers, rebuilds, watchLog, events>>

\* the rejection of an entry's promise reaches .catch(handleError)
Caught(e, sink) ==
  [e EXCEPT !.state = "handled", !.failed = TRUE, !.handled = @ + 1,
            !.to = @ \cup {sink}]

\* the compile promise of a js entry settles: it rejects, or it resolves
\* and the artifact is written, or the write throws
OnceSettleJs(i, outcome) ==
  /\ onceEntries[i].state = "compiling"
  /\ TypeOf(i) = "js"
  /\ IF outcome = "ok"
     THEN /\ fs' = writeArtifact(fs, appMap.target, Entries[i].name,
                                 "compiled")
          /\ onceEntries' = [onceEntries EXCEPT ![i].state = "written"]
          /\ compiled' = [compiled EXCEPT ![i].from = Resolved(i).paths]
     ELSE /\ fs' = fs
          /\ onceEntries' = [onceEntries EXCEPT
                               ![i] = Caught(@, onceCall.handler)]
          /\ compiled' = compiled
  /\ UNCHANGED <<session, call, handlers, onErrorState, onceCall, liveCall,
                 mapJobs, watchers, rebuilds, watchLog, events>>

\* the compile promise of a css entry settles: CSS.compile has given its
\* failures to css.handleError and resolves; the write may still throw
OnceSettleCss(i, loadFails, sassFails, postFails, writeFails) ==
  /\ onceEntries[i].state = "compiling"
  /\ TypeOf(i) = "css"
  /\ LET c == cssCompile(loadFails, sassFails, postFails)
         e == [onceEntries[i] EXCEPT
                 !.backend = @ + c.calls,
                 !.failed = c.calls > 0,
                 !.to = IF c.calls > 0 THEN @ \cup {handlers.css} ELSE @]
     IN  IF writeFails
         THEN /\ fs' = fs
              /\ onceEntries' = [onceEntries EXCEPT
                                   ![i] = Caught(e, onceCall.handler)]
              /\ compiled' = compiled
         ELSE /\ fs' = writeArtifact(fs, appMap.target, Entries[i].name,
                                     c.content)
              /\ onceEntries' = [onceEntries EXCEPT
                                   ![i] = [e EXCEPT !.state = "written"]]
              /\ compiled' = [compiled EXCEPT
                                ![i].from = IF c.content = "compiled"
                                            THEN Resolved(i).paths ELSE <<>>]
  /\ UNCHANGED <<session, call, handlers, onErrorState, onceCall, liveCall,
                 mapJobs, watchers, rebuilds, watchLog, events>>

OnceSettled(i) == onceEntries[i].state \in {"written", "copied", "handled"}

\* an aggregate that resolves with the first entry's promise
onceResolvesFirst == \E i \in EntryIds : OnceSettled(i)

\* Promise.all of once: resolves when every entry's promise has
onceResolves == \A i \in EntryIds : OnceSettled(i)

OnceResolve ==
  /\ onceCall.state = "pending"
  /\ onceResolves
  /\ onceCall' = [onceCall EXCEPT !.state = "resolved"]
  /\ UNCHANGED <<session, call, compiled, fs, handlers, onErrorState, onceEntries,
                 liveCall, mapJobs, watchers, rebuilds, watchLog, events>>

(***************************************************************************)
(* build.js: live, getWatcherPromises, getWatchers.                        *)
(***************************************************************************)
\* the root files getWatcherPromises maps over: files.source of an object
\* entry, the array itself otherwise
Roots(i) == Resolved(i).paths

RootIds == UNION {{<<i, r>> : r \in 1..Len(Roots(i))} : i \in EntryIds}

\* live(appMap, handleError), called directly or through the facade: one
\* mapFile promise per root file of every entry.  A session starts to watch
\* at once, or after a once, made the same way, that built every entry.
LiveCall(via) ==
  /\ liveCall.state = "idle"
  /\ onceCall.state \in {"idle", "resolved"}
  /\ onceCall.via \in {"none", via}
  /\ \A i \in EntryIds : ~onceEntries[i].failed
  /\ IF appMap.kind = "file" \/ ~appMap.hasEntries
     THEN \* readMapFile reads the undeclared fileName; getAbsolutePathes
          \* takes Object.keys of undefined
          /\ liveCall' = [state |-> "threw", via |-> via,
                          handler |-> HandlerOf(via), cause |-> "config",
                          reported |-> 0]
          /\ UNCHANGED mapJobs
     ELSE /\ liveCall' = [state |-> "pending", via |-> via,
                          handler |-> HandlerOf(via), cause |-> "none",
                          reported |-> 0]
          /\ mapJobs' = [x \in RootIds |-> "pending"]
  /\ UNCHANGED <<session, call, compiled, fs, handlers, onErrorState, onceCall,
                 onceEntries, watchers, rebuilds, watchLog, events>>

\* the text of the source files, by absolute path
SourceGraph ==
  [p \in {getAbsolutePath(appMap.source, n) : n \in SourceNames} |->
     Imports(BaseName(p))]

\* the external of getWatcherPromises: that of an object entry; mapFile of
\* the js handler takes [] in its place when there is none
External(i) == Resolved(i).external

\* mapFunc(file, external) of a compiling type
mapFile(i, r) ==
  IF TypeOf(i) = "js"
  THEN jsMapFile(SourceGraph, Roots(i)[r], External(i))
  ELSE cssMapFile(SourceGraph, Roots(i)[r])

\* Static.mapFile: glob.sync of the root
staticMapFile(f, i, r) ==
  IF Glob(f, Roots(i)[r]) = {} THEN <<>> ELSE <<Roots(i)[r]>>

NewWatcher(file) ==
  [file |-> file, timeOut |-> FALSE, timers |-> 0, path |-> Undefined,
   started |-> 0, invoked |-> 0, window |-> 0, lastWindow |-> 0,
   sawDelete |-> FALSE, expiredAfterDelete |-> FALSE]

\* getWatchers(rootFile, files, ...): one watcher per file of the results
getWatchers(i, r, results) ==
  [x \in {<<i, r, k>> : k \in 1..Len(results)} |-> NewWatcher(results[x[3]])]

\* a mapFile promise resolves and its .then creates the watchers
LiveMapResolve(i, r) ==
  /\ <<i, r>> \in DOMAIN mapJobs
  /\ mapJobs[<<i, r>>] = "pending"
  /\ mapJobs' = [mapJobs EXCEPT ![<<i, r>>] = "resolved"]
  /\ watchers' = watchers @@
       getWatchers(i, r, IF TypeOf(i) = "files" THEN staticMapFile(fs, i, r)
                         ELSE mapFile(i, r))
  /\ UNCHANGED <<session, call, compiled, fs, handlers, onErrorState, onceCall,
                 onceEntries, liveCall, rebuilds, watchLog, events>>

\* a mapFile promise of a compiling type rejects: nothing catches it, and
\* Promise.all of live rejects with it
LiveMapReject(i, r) ==
  /\ <<i, r>> \in DOMAIN mapJobs
  /\ mapJobs[<<i, r>>] = "pending"
  /\ TypeOf(i) # "files"
  /\ mapJobs' = [mapJobs EXCEPT ![<<i, r>>] = "rejected"]
  /\ liveCall' = IF liveCall.state = "pending"
                 THEN [liveCall EXCEPT !.state = "rejected",
                                       !.cause = "entry"]
                 ELSE liveCall
  /\ UNCHANGED <<session, call, compiled, fs, handlers, onErrorState, onceCall,
                 onceEntries, watchers, rebuilds, watchLog, events>>

\* Promise.all of live: resolves when every mapFile promise has
LiveResolve ==
  /\ liveCall.state = "pending"
  /\ \A x \in DOMAIN mapJobs : mapJobs[x] = "resolved"
  /\ liveCall' = [liveCall EXCEPT !.state = "resolved"]
  /\ UNCHANGED <<session, call, compiled, fs, handlers, onErrorState, onceCall,
                 onceEntries, mapJobs, watchers, rebuilds, watchLog, events>>

(***************************************************************************)
(* build.js: the 'raw' listener of a watcher and its debounce timer.       *)
(***************************************************************************)
\* the path a raw event may carry for a watched file
EventPaths(file) == {file, BaseName(file)}

\* the paths explored for a watcher: only the rebuild of a pass-through
\* output reads the path of the event
EventPathsOf(x) ==
  IF TypeOf(x[1]) = "files" THEN EventPaths(watchers[x].file)
  ELSE {watchers[x].file}

\* a listener that starts a timer for every raw event
mayStartTimerAlways(w) == TRUE

\* the guard of the listener: no timer is held in timeOut
mayStartTimer(w) == ~w.timeOut

\* .on('raw', (event, path, details) => ...)
RawEvent(x, path) ==
  /\ x \in DOMAIN watchers
  /\ events < MaxEvents
  /\ path \in EventPaths(watchers[x].file)
  /\ events' = events + 1
  /\ watchers' =
       [watchers EXCEPT ![x] =
          IF mayStartTimer(@)
          THEN [@ EXCEPT !.timeOut = TRUE, !.timers = @ + 1, !.path = path,
                         !.started = @ + 1, !.window = 1,
                         !.sawDelete = ~ExistsSync(fs, watchers[x].file)]
          ELSE [@ EXCEPT !.window = @ + 1,
                         !.sawDelete = @ \/ ~ExistsSync(fs, watchers[x].file)]]
  /\ UNCHANGED <<session, call, compiled, fs, handlers, onErrorState, onceCall,
                 onceEntries, liveCall, mapJobs, rebuilds, watchLog>>

\* the source argument the timer binds: options || rootFile
BoundSource(x) ==
  IF Resolved(x[1]).kind = "object" THEN Resolved(x[1])
  ELSE [kind |-> "string", paths |-> <<Roots(x[1])[x[2]]>>]

Fired(w) ==
  [w EXCEPT !.timers = @ - 1, !.invoked = @ + 1,
            !.path = Undefined,
            !.lastWindow = w.window, !.window = 0, !.sawDelete = FALSE,
            !.expiredAfterDelete = @ \/ w.sawDelete]

\* the timer of a pass-through output fires: logged runs writeToFile, which
\* does all its work in the call.  When it throws, the exception leaves
\* logged and the callback before timeOut = null is reached.
TimerFireFiles(x, fault) ==
  /\ x \in DOMAIN watchers
  /\ watchers[x].timers > 0
  /\ TypeOf(x[1]) = "files"
  /\ LET r == writeToFileFiles(fs, appMap.target, Entries[x[1]].name,
                               BoundSource(x), watchers[x].path, fault)
     IN  /\ fs' = r.fs
         /\ watchers' = [watchers EXCEPT
                           ![x] = [Fired(@) EXCEPT !.timeOut = r.threw]]
         /\ watchLog' = IF r.threw
                        THEN [watchLog EXCEPT !.failures = @ + 1,
                                              !.uncaught = @ + 1]
                        ELSE watchLog
  /\ UNCHANGED <<session, call, compiled, handlers, onErrorState, onceCall, onceEntries,
                 liveCall, mapJobs, rebuilds, events>>

\* the timer of a compiling output fires: writeToFile returns the promise
\* of compile, a rebuild of the output is in flight, and timeOut is cleared
TimerFireCompile(x) ==
  /\ x \in DOMAIN watchers
  /\ watchers[x].timers > 0
  /\ TypeOf(x[1]) # "files"
  /\ watchers' = [watchers EXCEPT ![x] = [Fired(@) EXCEPT !.timeOut = FALSE]]
  /\ rebuilds' = [rebuilds EXCEPT ![x[1]] = @ + 1]
  /\ compiled' = [compiled EXCEPT
                    ![x[1]].queue = Append(@, BoundSource(x).paths)]
  /\ UNCHANGED <<session, call, fs, handlers, onErrorState, onceCall,
                 onceEntries, liveCall, mapJobs, watchLog, events>>

\* the k-th rebuild in flight of an output settles, and the artifact is
\* then one compiled from the sources `from`
Settled(c, k, from) ==
  [from  |-> from,
   queue |-> SubSeq(c.queue, 1, k - 1) \o SubSeq(c.queue, k + 1, Len(c.queue))]

\* a rebuild of a js output settles.  The promise writeToFile returned has
\* no catch: a rejection is an unhandled rejection.
RebuildSettleJs(i, k, outcome) ==
  /\ i \in EntryIds
  /\ rebuilds[i] > 0
  /\ k \in 1..Len(compiled[i].queue)
  /\ TypeOf(i) = "js"
  /\ rebuilds' = [rebuilds EXCEPT ![i] = @ - 1]
  /\ IF outcome = "ok"
     THEN /\ fs' = writeArtifact(fs, appMap.target, Entries[i].name,
                                 "compiled")
          /\ watchLog' = watchLog
          /\ compiled' = [compiled EXCEPT ![i] = Settled(@, k, @.queue[k])]
     ELSE /\ fs' = fs
          /\ watchLog' = [watchLog EXCEPT !.failures = @ + 1,
                                          !.unhandled = @ + 1]
          /\ compiled' = [compiled EXCEPT ![i] = Settled(@, k, @.from)]
  /\ UNCHANGED <<session, call, handlers, onErrorState, onceCall, onceEntries,
                 liveCall, mapJobs, watchers, events>>

\* a rebuild of a css output settles
RebuildSettleCss(i, k, loadFails, sassFails, postFails, writeFails) ==
  /\ i \in EntryIds
  /\ rebuilds[i] > 0
  /\ k \in 1..Len(compiled[i].queue)
  /\ TypeOf(i) = "css"
  /\ rebuilds' = [rebuilds EXCEPT ![i] = @ - 1]
  /\ LET c == cssCompile(loadFails, sassFails, postFails)
     IN  IF writeFails
         THEN /\ fs' = fs
              /\ watchLog' = [watchLog EXCEPT !.failures = @ + 1,
                                              !.unhandled = @ + 1]
              /\ compiled' = [compiled EXCEPT ![i] = Settled(@, k, @.from)]
         ELSE /\ fs' = writeArtifact(fs, appMap.target, Entries[i].name,
                                     c.content)
              /\ watchLog' = watchLog
              /\ compiled' =
                   [compiled EXCEPT
                      ![i] = Settled(@, k, IF c.content = "compiled"
                                           THEN @.queue[k] ELSE <<>>)]
  /\ UNCHANGED <<session, call, handlers, onErrorState, onceCall, onceEntries,
                 liveCall, mapJobs, watchers, events>>

\* the user deletes the watched source file of a pass-through entry
DeleteSource(i, r) ==
  /\ <<i, r, 1>> \in DOMAIN watchers
  /\ TypeOf(i) = "files"
  /\ IsFile(fs, Roots(i)[r])
  /\ fs' = [fs EXCEPT !.files = @ \ {Resolve(Roots(i)[r])}]
  /\ UNCHANGED <<session, call, compiled, handlers, onErrorState, onceCall, onceEntries,
                 liveCall, mapJobs, watchers, rebuilds, watchLog, events>>

Outcomes == {"ok", "compileFails", "writeFails"}
Vias == {"facade", "direct"}
WatcherIds == DOMAIN watchers

Next ==
  \/ OnError
  \/ \E via \in Vias, fault \in BOOLEAN : OnceCall(via, fault)
  \/ \E i \in EntryIds, o \in Outcomes : OnceSettleJs(i, o)
  \/ \E i \in EntryIds, l, sa, po, wr \in BOOLEAN :
       OnceSettleCss(i, l, sa, po, wr)
  \/ OnceResolve
  \/ \E via \in Vias : LiveCall(via)
  \/ \E x \in RootIds : LiveMapResolve(x[1], x[2])
  \/ \E x \in RootIds : LiveMapReject(x[1], x[2])
  \/ LiveResolve
  \/ \E x \in WatcherIds : \E p \in EventPathsOf(x) : RawEvent(x, p)
  \/ \E x \in WatcherIds, fault \in BOOLEAN : TimerFireFiles(x, fault)
  \/ \E x \in WatcherIds : TimerFireCompile(x)
  \/ \E i \in EntryIds, k \in 1..MaxEvents, o \in Outcomes :
       RebuildSettleJs(i, k, o)
  \/ \E i \in EntryIds, k \in 1..MaxEvents, l, sa, po, wr \in BOOLEAN :
       RebuildSettleCss(i, k, l, sa, po, wr)
  \/ \E x \in RootIds : DeleteSource(x[1], x[2])

Spec == Init /\ [][Next]_vars

(***************************************************************************)
(* Single calls.  What is said of one function is checked on sessions      *)
(* that build nothing and make one call of it: Init draws the platform     *)
(* and the file tree, the action draws the arguments and applies the       *)
(* function.                                                               *)
(***************************************************************************)
\* no build is made: once and live stay idle
NoBuild ==
  /\ appMap = MapOf(<<>>)
  /\ resolved = <<>>
  /\ handlers = [build |-> "default", css |-> "default", html |-> "default",
                 js |-> "none"]
  /\ onErrorState = "idle"
  /\ onceCall = [state |-> "idle", via |-> "none", handler |-> "none",
                 cause |-> "none", reported |-> 0]
  /\ onceEntries = <<>>
  /\ liveCall = [state |-> "idle", via |-> "none", handler |-> "none",
                 cause |-> "none", reported |-> 0]
  /\ mapJobs = <<>>
  /\ watchers = <<>>
  /\ rebuilds = <<>>
  /\ watchLog = NoWatchLog
  /\ events = 0
  /\ compiled = <<>>

Under(dir, name) == dir \o Slash \o name

\* the source tree: f.t beside s; s/f.t; the folder s/d with x.t, the
\* subfolder n (y.t) and the subfolder v.w (z.t)
SrcDirs ==
  { <<"s">>, <<"s", "/", "d">>, <<"s", "/", "d", "/", "n">>,
    <<"s", "/", "d", "/", "v", ".", "w">> }
SrcFiles ==
  { <<"f", ".", "t">>,
    <<"s", "/", "f", ".", "t">>,
    <<"s", "/", "d", "/", "x", ".", "t">>,
    <<"s", "/", "d", "/", "n", "/", "y", ".", "t">>,
    <<"s", "/", "d", "/", "v", ".", "w", "/", "z", ".", "t">> }
\* a target folder t/o that holds copies made earlier
OutDirs == { <<"t">>, <<"t", "/", "o">> }
OutFiles ==
  { <<"t", "/", "o", "/", "f", ".", "t">>,
    <<"t", "/", "o", "/", "x", ".", "t">>,
    <<"t", "/", "o", "/", "q", ".", "t">> }
\* sources deleted after they were copied
Gone == { <<"f", ".", "t">>, <<"s", "/", "d", "/", "x", ".", "t">> }

Tree(c, files, dirs) ==
  [files |-> {Norm(Under(c, q)) : q \in files},
   dirs  |-> {c} \cup {Norm(Under(c, q)) : q \in dirs} \cup
             (IF c[1] = "/" THEN {Slash} ELSE {}),
   empty |-> {}]

Trees(c) ==
  { Tree(c, SrcFiles, SrcDirs),
    Tree(c, SrcFiles \cup OutFiles, SrcDirs \cup OutDirs),
    Tree(c, (SrcFiles \ Gone) \cup OutFiles, SrcDirs \cup OutDirs) }

InitCalls ==
  /\ cwd \in Cwds
  /\ fs \in Trees(cwd)
  /\ NoBuild
  /\ call = NoCall

\* files.copy(source, target): a file, a folder, a missing file, given
\* relative or absolute
CopySources ==
  LET rel == { <<"s", "/", "f", ".", "t">>, <<"s", "/", "d">>,
               <<"s", "/", "q", ".", "t">> }
  IN  rel \cup {Under(cwd, q) : q \in rel}
CopyTargets ==
  LET rel == { <<"t", "/">>, <<"t", "/", "o", "/">>,
               <<"t", "/", "r", ".", "t">>, <<"r", ".", "t">> }
  IN  rel \cup {Under(cwd, q) : q \in rel}

CallCopy(source, target) ==
  /\ call.op = "none"
  /\ LET r == copy(fs, [kind |-> "string", paths |-> <<source>>], target,
                   FALSE)
     IN  /\ fs' = r.fs
         /\ call' = [op  |-> "copy",
                     in  |-> [source |-> source, target |-> target,
                              before |-> fs],
                     out |-> [threw |-> r.threw]]
  /\ UNCHANGED <<session, handlers, onErrorState, onceCall, onceEntries,
                 liveCall, mapJobs, watchers, rebuilds, watchLog, events,
                 compiled>>

\* getAbsolutePath(path, file)
Bases ==
  { <<>>, <<"s">>, <<"s", "/">>, <<"s", "/", "/">>,
    <<"a", "/", "/", "b">> }
Fragments ==
  { <<"f">>, <<"/", "f">>, <<"/", "/", "f">>, <<"d", "/", "/", "f">> }

CallGetAbsolutePath(path, file) ==
  /\ call.op = "none"
  /\ call' = [op  |-> "getAbsolutePath",
              in  |-> [path |-> path, file |-> file],
              out |-> getAbsolutePath(path, file)]
  /\ UNCHANGED <<session, fs, handlers, onErrorState, onceCall, onceEntries,
                 liveCall, mapJobs, watchers, rebuilds, watchLog, events,
                 compiled>>

\* getFileType(fileName)
Names ==
  { q \o suf :
      q \in { <<>>, <<"a">>, <<"o", "/">>, <<"a", ".", "j", "s">>,
              <<"a", ".", "c", "s", "s">> },
      suf \in { <<>>, <<".", "j", "s">>, <<".", "c", "s", "s">>,
                <<".", "h", "t", "m", "l">>, <<"/">>,
                <<".", "j", "s", "x">>, <<"j", "s">>, <<".", "h", "t", "m">>,
                <<".", "s", "c", "s", "s">>, <<".", "j", "s", "/">> } }

CallGetFileType(fileName) ==
  /\ call.op = "none"
  /\ call' = [op  |-> "getFileType",
              in  |-> [fileName |-> fileName],
              out |-> getFileType(fileName)]
  /\ UNCHANGED <<session, fs, handlers, onErrorState, onceCall, onceEntries,
                 liveCall, mapJobs, watchers, rebuilds, watchLog, events,
                 compiled>>

\* removeFileIfRedundant(file, entries, destPath), entries an array
ChangedFiles == { <<"f", ".", "t">>, <<"x", ".", "t">>, <<"q", ".", "t">> }
EntryLists ==
  { << <<"f", ".", "t">> >>,
    << <<"s", "/", "d", "/">> >>,
    << <<"s", "/", "f", ".", "t">> >>,
    << <<"f", ".", "t">>, <<"s", "/", "d", "/">> >> }
DestPath == <<"t", "/", "o", "/">>

CallRemove(file, entries) ==
  /\ call.op = "none"
  /\ LET r == removeFileIfRedundant(fs, file,
                                    [kind |-> "array", paths |-> entries],
                                    DestPath)
     IN  /\ fs' = r.fs
         /\ call' = [op  |-> "removeFileIfRedundant",
                     in  |-> [file |-> file, entries |-> entries,
                              destPath |-> DestPath, before |-> fs],
                     out |-> [threw |-> r.threw]]
  /\ UNCHANGED <<session, handlers, onErrorState, onceCall, onceEntries,
                 liveCall, mapJobs, watchers, rebuilds, watchLog, events,
                 compiled>>

NextCalls ==
  \/ \E source \in CopySources, target \in CopyTargets :
       CallCopy(source, target)
  \/ \E path \in Bases, file \in Fragments : CallGetAbsolutePath(path, file)
  \/ \E fileName \in Names : CallGetFileType(fileName)
  \/ \E file \in ChangedFiles, entries \in EntryLists :
       CallRemove(file, entries)

SpecCalls == InitCalls /\ [][NextCalls]_vars

(***************************************************************************)
(* Single calls of the reference discovery through js.mapFile, over every  *)
(* graph of three files in one folder whose files hold at most MaxRefs     *)
(* references.                                                             *)
(***************************************************************************)
RefNames == { <<"A">>, <<"B">>, <<"C">> }
GraphFiles == { Under(<<"s">>, n) : n \in RefNames }
RootFile == Under(<<"s">>, <<"A">>)
RefLists == UNION { [1..k -> RefNames] : k \in 0..MaxRefs }
Graphs == [GraphFiles -> RefLists]
Externals == { <<>>, << <<"B">> >>, << <<"C">> >>, << <<"B">>, <<"C">> >> }

InitDiscover ==
  /\ cwd = PosixCwd
  /\ fs = InitFs(cwd)
  /\ NoBuild
  /\ call = NoCall

CallDiscover(g, external) ==
  /\ call.op = "none"
  /\ call' = [op  |-> "discover",
              in  |-> [g |-> g, rootFile |-> RootFile,
                       external |-> external],
              out |-> [done  |-> discover(g, RootFile, external).done,
                       files |-> jsMapFile(g, RootFile, external)]]
  /\ UNCHANGED <<session, fs, handlers, onErrorState, onceCall, onceEntries,
                 liveCall, mapJobs, watchers, rebuilds, watchLog, events,
                 compiled>>

\* one call per session
NextDiscover ==
  /\ call.op = "none"
  /\ \E g \in Graphs, external \in Externals : CallDiscover(g, external)

SpecDiscover == InitDiscover /\ [][NextDiscover]_vars

(***************************************************************************)
(* The properties.                                                         *)
(***************************************************************************)
\* the artifact of entry i: the compiled file, or the copy of source r
Artifact(i) == getAbsolutePath(appMap.target, Entries[i].name)
CopyOf(i, r) == getFileTargt(Roots(i)[r], Artifact(i))

\* C1: a watcher never has more than one pending timer, and every timer it
\* started has either fired, invoking writeToFile exactly once, or is still
\* pending: the raw events that arrive while a timer is pending start no
\* timer and cause no rebuild of their own.
C1_Debounce ==
  \A x \in DOMAIN watchers :
    /\ watchers[x].timers <= 1
    /\ watchers[x].invoked + watchers[x].timers = watchers[x].started

\* two raw events fell into one window, and its timer has fired
C1_Witness ==
  \E x \in DOMAIN watchers :
    /\ watchers[x].lastWindow >= 2
    /\ watchers[x].timers = 0
    /\ watchers[x].invoked = 1

\* C2: once a watcher's timer has fired and no timer is pending, its
\* timeOut has been cleared, whatever became of the rebuild.
C2_TimerCleared ==
  \A x \in DOMAIN watchers : watchers[x].timers = 0 => ~watchers[x].timeOut

\* C3: every failure of a watch-triggered rebuild has been delivered to the
\* error handler passed to live.
C3_FailuresDelivered == watchLog.failures = watchLog.toLive

\* C4: no output has two watch-triggered rebuilds in flight.
C4_NonOverlap == \A i \in EntryIds : rebuilds[i] <= 1

\* once has run to its end: it resolved, or it threw over an entry, and no
\* compile promise is left
OnceOver ==
  /\ onceCall.state \in {"resolved", "threw"}
  /\ onceCall.cause # "config"
  /\ \A i \in EntryIds : onceEntries[i].state # "compiling"

\* C5: when once is over, every entry that failed has had the handler of
\* the call invoked exactly once, and every entry that did not fail has its
\* artifact and no invocation.
C5_FailureIsolation ==
  OnceOver =>
    \A i \in EntryIds :
      IF onceEntries[i].failed
      THEN onceEntries[i].handled = 1
      ELSE /\ onceEntries[i].handled = 0
           /\ onceEntries[i].state \in {"written", "copied"}

\* C6: neither once nor live throws or rejects over the failure of an entry.
C6_AggregateSettles == onceCall.cause # "entry" /\ liveCall.cause # "entry"

\* C7: when the promise of once has resolved, every entry has settled: its
\* artifact is written or copied, or its failure was given to the handler.
C7_ResolvesAfterAll ==
  onceCall.state = "resolved" =>
    \A i \in EntryIds :
      /\ OnceSettled(i)
      /\ onceEntries[i].state = "written" => IsFile(fs, Artifact(i))
      /\ onceEntries[i].state = "handled" => onceEntries[i].handled >= 1

\* once resolved after two compiling entries, one written and one handled
C7_Witness ==
  /\ onceCall.state = "resolved"
  /\ \E i, j \in EntryIds :
       /\ TypeOf(i) # "files" /\ TypeOf(j) # "files"
       /\ onceEntries[i].state = "written"
       /\ onceEntries[j].state = "handled"

\* C8: once called with a map that has no entries key reports the error to
\* the handler and does not throw.
C8_MissingEntriesReported ==
  (onceCall.state # "idle" /\ appMap.kind = "object" /\ ~appMap.hasEntries)
    => (onceCall.reported = 1 /\ onceCall.state # "threw")

\* C9: when a timer of a pass-through watcher has expired after a change
\* event for its deleted source file, the copy of that file is gone from
\* the target.
C9_StaleRemoved ==
  \A x \in DOMAIN watchers :
    (/\ TypeOf(x[1]) = "files"
     /\ watchers[x].expiredAfterDelete
     /\ ~ExistsSync(fs, watchers[x].file))
      => ~ExistsSync(fs, CopyOf(x[1], x[2]))

\* C10: after build.onError(h) the call has returned, h is installed in
\* every backend, and every failure of a build.once made after it went to h.
C10_HandlerPropagated ==
  onErrorState # "idle" =>
    /\ onErrorState = "returned"
    /\ handlers.css = "user" /\ handlers.html = "user" /\ handlers.js = "user"
    /\ onceCall.via = "facade" =>
         \A i \in EntryIds : onceEntries[i].to \subseteq {"user"}

\* the files an entry excludes: its external paths, resolved like the
\* references of its root files, and everything discovered from them
Excluded(i) ==
  UNION {{resolveRef(Roots(i)[r], External(i)[e]) :
            e \in 1..Len(External(i))} : r \in 1..Len(Roots(i))}
ExcludedTree(i) ==
  UNION {Range(discover(SourceGraph, p, <<>>).files) :
           p \in Excluded(i) \cap DOMAIN SourceGraph}

\* C11: no watcher of an output watches a file that the external of its
\* entry excludes, or a file of the subtree of such a file, whatever the
\* type of the output.
C11_ExternalExcluded ==
  \A x \in DOMAIN watchers : watchers[x].file \notin ExcludedTree(x[1])

\* C17: the artifact of a compiled output is always the compilation of the
\* full source set of its entry, also after a watch-triggered rebuild.
C17_FullRebuild ==
  \A i \in EntryIds :
    (TypeOf(i) # "files" /\ compiled[i].from # <<>>)
      => compiled[i].from = Resolved(i).paths

\* C18: an output has at most one watcher per source file.
C18_OneObserverPerFile ==
  \A x, y \in DOMAIN watchers :
    (x[1] = y[1] /\ watchers[x].file = watchers[y].file) => x = y

\* C20: no artifact is ever written from a compilation that failed.
C20_WriteAfterCompile ==
  \A i \in EntryIds : Resolve(Artifact(i)) \notin fs.empty

\* the files reached from the files of S by references that are not
\* external, S included
RECURSIVE Closure(_, _, _)
Closure(g, external, S) ==
  LET T == S \cup
           UNION {{resolveRef(f, g[f][k]) :
                     k \in {j \in 1..Len(g[f]) :
                              ~isExternal(g[f][j], external)}} : f \in S}
  IN  IF T = S THEN S ELSE Closure(g, external, T)

\* C12: a discovery ends, on every graph, within the steps that entering
\* every file once and reading every reference once take; the set it
\* returns holds every file reachable from the root and no other, no file
\* twice, and every file but the root after a file that references it.
C12_DiscoveryTerminates ==
  call.op = "discover" =>
    LET g     == call.in.g
        files == call.out.files
    IN  /\ call.out.done
        /\ \A j, k \in 1..Len(files) : files[j] = files[k] => j = k
        /\ Range(files) = Closure(g, call.in.external, {call.in.rootFile})
        /\ files[1] = call.in.rootFile
        /\ \A k \in 2..Len(files) :
             \E j \in 1..(k - 1) : \E n \in 1..Len(g[files[j]]) :
               files[k] = resolveRef(files[j], g[files[j]][n])

\* a discovery over a cycle (A references B, B references A) where C is
\* referenced by both has returned the three files
C12_Witness ==
  /\ call.op = "discover"
  /\ call.in.external = <<>>
  /\ <<"B">> \in Range(call.in.g[RootFile])
  /\ <<"C">> \in Range(call.in.g[RootFile])
  /\ <<"A">> \in Range(call.in.g[Under(<<"s">>, <<"B">>)])
  /\ <<"C">> \in Range(call.in.g[Under(<<"s">>, <<"B">>)])
  /\ call.out.done
  /\ Len(call.out.files) = Cardinality(GraphFiles)

\* C13: after files.copy of an existing file, the file is at the target
\* name: under the target with its base name when the target ends with a
\* separator, at the target itself otherwise; the call has not thrown.
C13_CopyNaming ==
  (call.op = "copy" /\ IsFile(call.in.before, call.in.source)) =>
    /\ ~call.out.threw
    /\ IsFile(fs, IF EndsWith(call.in.target, Slash)
                  THEN call.in.target \o BaseName(call.in.source)
                  ELSE call.in.target)

\* C14: after files.copy of a folder to a target folder, every file of the
\* folder, at every depth, is under the target at the same relative path.
C14_CopySubtree ==
  (/\ call.op = "copy"
   /\ IsDirectory(call.in.before, call.in.source)
   /\ EndsWith(call.in.target, Slash)) =>
    LET dir == Resolve(call.in.source) \o Slash
    IN  \A q \in call.in.before.files :
          (Len(q) > Len(dir) /\ SubSeq(q, 1, Len(dir)) = dir)
            => IsFile(fs, call.in.target \o SubSeq(q, Len(dir) + 1, Len(q)))

\* the place of a type in the registry
IdIndex(id) == CHOOSE i \in 1..Len(types) : types[i].id = id

\* C15: getFileType returns a type of the registry for every name: the
\* first, in the order js, css, html, files, whose pattern matches the
\* name, and files when no pattern matches.
C15_FileTypeTotal ==
  call.op = "getFileType" =>
    LET name == call.in.fileName
        hits == {i \in 1..Len(types) : EndsWith(name, types[i].suffix)}
    IN  /\ call.out \in {"js", "css", "html", "files"}
        /\ hits = {} => call.out = "files"
        /\ \A i \in hits : IdIndex(call.out) \in hits /\ IdIndex(call.out) <= i

\* getFileType was called with a name no pattern matches
C15_Witness ==
  /\ call.op = "getFileType"
  /\ call.in.fileName = <<"a", ".", "j", "s", "x">>
  /\ call.out = "files"

\* C16: the path getAbsolutePath returns starts with the working
\* directory and a separator, and holds no two consecutive separators.
C16_NoDoubleSeparator ==
  call.op = "getAbsolutePath" =>
    /\ SubSeq(call.out, 1, Len(cwd) + 1) = cwd \o Slash
    /\ \A i \in 1..(Len(call.out) - 1) :
         ~(call.out[i] = "/" /\ call.out[i + 1] = "/")

\* C19: removeFileIfRedundant deletes the target of the changed file only
\* when the file corresponds to an entry (it is the entry, or the entry is
\* a folder) and to no entry that still exists; a file that corresponds to
\* no entry keeps its target, and so does a file whose source, a file
\* entry of its name, still exists.
C19_RemoveOnlyStale ==
  call.op = "removeFileIfRedundant" =>
    LET file    == call.in.file
        entries == call.in.entries
        before  == call.in.before
        target  == call.in.destPath \o file
        deleted == ExistsSync(before, target) /\ ~ExistsSync(fs, target)
        named   == \E k \in 1..Len(entries) :
                     entries[k] = file \/ EndsWith(entries[k], Slash)
        alive   == \E k \in 1..Len(entries) :
                     \/ entries[k] = file /\ ExistsSync(before, file)
                     \/ /\ EndsWith(entries[k], Slash)
                        /\ ExistsSync(before, entries[k] \o file)
        source  == \E k \in 1..Len(entries) :
                     /\ BaseName(entries[k]) = file
                     /\ IsFile(before, entries[k])
    IN  deleted => (named /\ ~alive /\ ~source)

====
